---- MODULE Spec2Model ----
(***************************************************************************)
(* OT Meal Tracker (OT_tracker.py): the claim ledger kept in a workbook,   *)
(* the OT tab that marks claims in it, and the Bills Repo tab that stores  *)
(* uploaded bills and appends them to a CSV index.                         *)
(*                                                                         *)
(* Python strings are modelled as sequences of one-character strings, so   *)
(* that strip, sanitize_filename, os.path.splitext and the path building   *)
(* are computed character by character.  The value None is the one-element *)
(* sequence <<"None">>, which no string of characters equals.              *)
(***************************************************************************)
EXTENDS Integers, Sequences, FiniteSets, TLC

VARIABLES
    ledgerFile,   \* state of OT_Tracker.xlsx on disk: "ok", "unopenable", "nosheet"
    grid,         \* cells of sheet "OT" on disk: grid[row][col], rows 2.., columns 2..
    colCache,     \* st.cache_data of get_name_to_col: {} or {mapping}
    namesCache,   \* st.cache_data of get_all_names: {} or {sorted list}
    otLast,       \* what the last run of render_ot_tab saw and reported
    billAmount,   \* SpecReq: the number_input value
    required,     \* SpecReq: required_people
    gatePc,       \* SpecReq: position in lines 106-113
    sess,         \* SpecRace: per session, the run in flight (workbook in memory)
    raceLast,     \* SpecRace: per session, what its last finished run reported
    osSep,        \* os.sep of the machine the app runs on
    files,        \* Bills/: the stored files, a set of [path, payload]
    indexFile,    \* Bills/bills_index.csv: "absent" or "ok"
    index,        \* the rows of bills_index.csv, in order
    clock,        \* datetime.now() at the last Save Bill, in seconds
    uploads,      \* one entry per press of Save Bill with a file chosen
    billMsg       \* what the last run of render_bills_repo_tab reported

vars == <<ledgerFile, grid, colCache, namesCache, otLast, billAmount, required,
          gatePc, sess, raceLast, osSep, files, indexFile, index, clock, uploads,
          billMsg>>

otVars == <<ledgerFile, grid, colCache, namesCache, otLast>>
reqVars == <<billAmount, required, gatePc>>
raceVars == <<sess, raceLast>>
billVars == <<osSep, files, indexFile, index, clock, uploads, billMsg>>

-----------------------------------------------------------------------------
(* Bounds of the model *)

MaxPeople == 2      \* bill amounts go up to MaxPeople * 750 + 1
MaxBill == 2300     \* SpecReq: bill amounts 0..MaxBill
MaxUploads == 3     \* SpecBills: Save Bill is pressed at most this many times

-----------------------------------------------------------------------------
(* Python values *)

PyNone == <<"None">>
EmptyStr == << >>
OT == <<"O", "T">>
OtherMark == <<"x">>

Min(a, b) == IF a <= b THEN a ELSE b

IsSpace(c) == c \in {" ", "\t"}

RECURSIVE LStrip(_)
LStrip(s) == IF s # << >> /\ IsSpace(Head(s)) THEN LStrip(Tail(s)) ELSE s

RECURSIVE RStrip(_)
RStrip(s) ==
    IF s # << >> /\ IsSpace(s[Len(s)]) THEN RStrip(SubSeq(s, 1, Len(s) - 1)) ELSE s

\* str.strip()
Strip(s) == RStrip(LStrip(s))

-----------------------------------------------------------------------------
(* The workbook *)

Al == <<"A", "l">>
Bo == <<"B", "o">>

\* Row 1, columns 2..5: a name, an empty header cell, a name, a name with
\* surrounding blanks.
HeaderCells == <<Al, PyNone, Bo, <<" ", "C", "y", " ">> >>

\* Column A, rows 2..5: a date cell, an ISO string, a "%d-%b-%Y" string of the
\* day of row 2 (a duplicate date), and a cell that is no date.
DateCells ==
    << [kind |-> "date", day |-> 1],
       [kind |-> "str_iso", day |-> 2],
       [kind |-> "str_dmy", day |-> 1],
       [kind |-> "none", day |-> 0] >>

Cols == {i + 1 : i \in 1..Len(HeaderCells)}
Rows == {i + 1 : i \in 1..Len(DateCells)}

NoDate == 0
NoRow == 0

\* The dates the date_input can give: the two in the sheet and one that is not.
Dates == {1, 2, 3}

\* _to_date
ToDate(x) ==
    CASE x.kind = "none" -> NoDate
      [] x.kind = "datetime" -> x.day
      [] x.kind = "date" -> x.day
      [] x.kind = "str_iso" -> x.day
      [] x.kind = "str_dmy" -> x.day
      [] OTHER -> NoDate

\* get_name_to_col: header cells that are truthy, stripped, mapped to their
\* column; a later duplicate overwrites an earlier one.
TruthyCols == {c \in Cols : HeaderCells[c - 1] # PyNone /\ HeaderCells[c - 1] # EmptyStr}

NameToCol ==
    [n \in {Strip(HeaderCells[c - 1]) : c \in TruthyCols} |->
        CHOOSE c \in TruthyCols :
            /\ Strip(HeaderCells[c - 1]) = n
            /\ \A c2 \in TruthyCols : Strip(HeaderCells[c2 - 1]) = n => c2 <= c]

\* find_row_for_date: the first row of column A whose date is selected_date.
FindRow(selected_date) ==
    IF \E r \in Rows : ToDate(DateCells[r - 1]) = selected_date
    THEN CHOOSE r \in Rows :
            /\ ToDate(DateCells[r - 1]) = selected_date
            /\ \A r2 \in Rows : ToDate(DateCells[r2 - 1]) = selected_date => r <= r2
    ELSE NoRow

IsEmptyCell(v) == v = PyNone \/ v = EmptyStr

\* lines 137-141: the names whose cell in the row is None or "".
AvailablePeople(ws, row_index, names) ==
    {n \in DOMAIN names : IsEmptyCell(ws[row_index][names[n]])}

\* line 113
RequiredPeopleFloor(bill_amount) == bill_amount \div 750

RequiredPeople(bill_amount) ==
    IF bill_amount % 750 = 0 THEN bill_amount \div 750 ELSE (bill_amount \div 750) + 1

\* line 109
BillGateOpen(bill_amount) == ~(bill_amount <= 0)

\* line 163: the submit is rejected when this is false.
SelectionOkAtMost(selected_people, required_people, available_people) ==
    ~(required_people > 0
      /\ Cardinality(selected_people) > Min(required_people, Cardinality(available_people)))

SelectionOk(selected_people, required_people, available_people) ==
    ~(required_people > 0
      /\ Cardinality(selected_people) # Min(required_people, Cardinality(available_people)))

\* lines 168-169
MarkBlank(ws, row_index, names, selected_people) ==
    [ws EXCEPT ![row_index] =
        [c \in Cols |->
            IF \E p \in selected_people : names[p] = c THEN EmptyStr ELSE ws[row_index][c]]]

MarkRow(ws, row_index, names, selected_people) ==
    [ws EXCEPT ![row_index] =
        [c \in Cols |-> OT]]

Mark(ws, row_index, names, selected_people) ==
    [ws EXCEPT ![row_index] =
        [c \in Cols |->
            IF \E p \in selected_people : names[p] = c THEN OT ELSE ws[row_index][c]]]

\* The selections the multiselect can hold: options available_people,
\* max_selections required_people.
Selections(available_people, required_people) ==
    {s \in SUBSET available_people : Cardinality(s) <= required_people}

-----------------------------------------------------------------------------
(* render_ot_tab, lines 103-181 *)

\* "unopenable": load_workbook raises (the file is absent, locked or no workbook).
FileStates == {"ok", "unopenable", "nosheet"}

\* The values the number_input is given: 0, each multiple of 750 and the next
\* amount after it.
BillAmounts == {0} \cup {750 * k + e : k \in 1..MaxPeople, e \in {0, 1}}

\* get_name_to_col behind st.cache_data: the cached mapping when there is one,
\* else the header of the workbook (the caller has just opened it).
CachedNameToCol(cache) == IF cache # {} THEN CHOOSE m \in cache : TRUE ELSE NameToCol

\* Lines 106-150: what the run shows before the multiselect.
OtView(file, ws, cache, selected_date, bill_amount) ==
    LET none == [required |-> 0, row |-> NoRow, avail |-> {}]
        required_people == RequiredPeople(bill_amount)
        row_index == FindRow(selected_date)
        names == CachedNameToCol(cache)
        available_people == AvailablePeople(ws, row_index, names)
    IN  IF ~BillGateOpen(bill_amount)
        THEN [stage |-> "info_bill"] @@ none
        ELSE IF file = "unopenable"
        THEN [stage |-> "err_open"] @@ [none EXCEPT !.required = required_people]
        ELSE IF file = "nosheet"
        THEN [stage |-> "err_sheet"] @@ [none EXCEPT !.required = required_people]
        ELSE IF row_index = NoRow
        THEN [stage |-> "err_date"] @@ [none EXCEPT !.required = required_people]
        ELSE IF available_people = {}
        THEN [stage |-> "all_claimed",
              required |-> required_people, row |-> row_index, avail |-> {}]
        ELSE [stage |-> "form",
              required |-> required_people, row |-> row_index, avail |-> available_people]

\* Lines 162-181: the message the run ends with once the form is shown.
SubmitMsg(view, selected_people, submit, saveOk) ==
    IF ~submit THEN "idle"
    ELSE IF ~SelectionOk(selected_people, view.required, view.avail) THEN "err_select"
    ELSE IF saveOk THEN "saved"
    ELSE "err_save"

\* Lines 163-181: the sheet in the file when the run ends; ws_disk is the
\* sheet in the file and ws_loaded the sheet line 117 loaded.  The marks of
\* lines 168-169 are made on the loaded workbook after line 163 let the submit
\* through, wb.save writes that workbook over the file, and every other path
\* closes the workbook without saving.
OtFileMarkFirst(view, ws_disk, ws_loaded, names, selected_people, msg) ==
    IF msg \in {"saved", "err_select"}
    THEN Mark(ws_loaded, view.row, names, selected_people)
    ELSE ws_disk

OtFileReload(view, ws_disk, ws_loaded, names, selected_people, msg) ==
    IF msg = "saved"
    THEN Mark(ws_disk, view.row, names, selected_people)
    ELSE ws_disk

OtFile(view, ws_disk, ws_loaded, names, selected_people, msg) ==
    IF msg = "saved"
    THEN Mark(ws_loaded, view.row, names, selected_people)
    ELSE ws_disk

OtStart ==
    [stage |-> "none", date |-> 1, bill |-> 0, required |-> 0, row |-> NoRow,
     avail |-> {}, sel |-> {}, submit |-> FALSE, msg |-> "none", pre |-> grid]

\* The sheet before the first run: empty cells (None), one cell holding "" in
\* row 2, a claim already in row 3 and one in row 4.
InitGrid ==
    LET blank == [r \in Rows |-> [c \in Cols |-> PyNone]]
    IN  [blank EXCEPT ![2] = [@ EXCEPT ![2] = EmptyStr],
                      ![3] = [@ EXCEPT ![4] = OtherMark],
                      ![4] = [@ EXCEPT ![2] = OtherMark]]

OtInit ==
    /\ ledgerFile \in FileStates
    /\ grid = InitGrid
    /\ colCache = {}
    /\ namesCache = {}
    /\ otLast = OtStart

ReqIdle == /\ billAmount = 0 /\ required = 0 /\ gatePc = "idle"

RenderOT ==
    \E selected_date \in Dates, bill_amount \in BillAmounts :
        LET view == OtView(ledgerFile, grid, colCache, selected_date, bill_amount)
            names == CachedNameToCol(colCache)
        IN  \E selected_people \in
                    (IF view.stage = "form" THEN Selections(view.avail, view.required) ELSE {{}}) :
            \* the button exists once the form is shown; wb.save is reached (and
            \* can fail) once line 163 lets the submit through
            \E submit \in (IF view.stage = "form" THEN BOOLEAN ELSE {FALSE}) :
            \E saveOk \in (IF submit /\ SelectionOk(selected_people, view.required, view.avail)
                            THEN BOOLEAN ELSE {TRUE}) :
                LET msg == IF view.stage = "form"
                           THEN SubmitMsg(view, selected_people, submit, saveOk)
                           ELSE view.stage
                IN  /\ grid' = OtFile(view, grid, grid, names, selected_people, msg)
                    /\ ledgerFile' = IF msg = "saved" THEN "ok" ELSE ledgerFile
                    /\ colCache' = IF view.stage \in {"all_claimed", "form"}
                                   THEN {names} ELSE colCache
                    /\ otLast' = [stage |-> view.stage, date |-> selected_date,
                                  bill |-> bill_amount, required |-> view.required,
                                  row |-> view.row, avail |-> view.avail,
                                  sel |-> selected_people, submit |-> submit,
                                  msg |-> msg, pre |-> grid]
                    /\ UNCHANGED namesCache

\* The workbook file is moved away, locked, replaced or put back by its owner;
\* its cells are edited by this program alone.
EnvLedger ==
    /\ \E st \in FileStates \ {ledgerFile} : ledgerFile' = st
    /\ UNCHANGED <<grid, colCache, namesCache, otLast>>

-----------------------------------------------------------------------------
(* Lines 106-113 on their own, over every bill amount up to MaxBill *)

Gate ==
    /\ gatePc = "input"
    /\ IF BillGateOpen(billAmount)
       THEN /\ required' = RequiredPeople(billAmount)
            /\ gatePc' = "ledger"
       ELSE /\ required' = required
            /\ gatePc' = "stopped"
    /\ UNCHANGED billAmount

-----------------------------------------------------------------------------
(* Two sessions (script threads) running render_ot_tab on the same file.    *)
(* load_workbook (line 117) and wb.save (line 172) are separate file        *)
(* operations of a run, and nothing locks the file between them.            *)

Sessions == {1, 2}

RaceBills == {750 * k : k \in 1..MaxPeople}

\* Both sessions pick the date of row 2.
RaceDates == {1}

SessIdle ==
    [pc |-> "idle", view |-> [stage |-> "none", required |-> 0, row |-> NoRow, avail |-> {}],
     wb |-> << >>]

RaceStart == [msg |-> "none", sel |-> {}, already |-> {}, lost |-> {}]

\* The cells of a sheet that hold a claim.
Claimed(ws) == {rc \in Rows \X Cols : ~IsEmptyCell(ws[rc[1]][rc[2]])}

\* Lines 106-150: the run opens the workbook and shows the form, or ends with
\* a message.
RaceLoad(s) ==
    /\ sess[s].pc = "idle"
    /\ \E selected_date \in RaceDates, bill_amount \in RaceBills :
        LET view == OtView(ledgerFile, grid, colCache, selected_date, bill_amount)
        IN  /\ sess' = [sess EXCEPT ![s] =
                            IF view.stage = "form"
                            THEN [pc |-> "loaded", view |-> view, wb |-> grid]
                            ELSE SessIdle]
            /\ raceLast' = [raceLast EXCEPT ![s] =
                            IF view.stage = "form" THEN RaceStart
                            ELSE [RaceStart EXCEPT !.msg = view.stage]]
            /\ colCache' = IF view.stage \in {"all_claimed", "form"}
                           THEN {CachedNameToCol(colCache)} ELSE colCache
    /\ UNCHANGED <<ledgerFile, grid, namesCache, otLast>>

\* Lines 155-181: the selection, the submit, the marks and the save, on the
\* workbook this run loaded.
RaceFinish(s) ==
    /\ sess[s].pc = "loaded"
    /\ \E selected_people \in Selections(sess[s].view.avail, sess[s].view.required) :
       \E submit \in BOOLEAN :
       \E saveOk \in (IF submit /\ SelectionOk(selected_people, sess[s].view.required,
                                                sess[s].view.avail)
                       THEN BOOLEAN ELSE {TRUE}) :
        LET view == sess[s].view
            names == CachedNameToCol(colCache)
            msg == SubmitMsg(view, selected_people, submit, saveOk)
            after == OtFile(view, grid, sess[s].wb, names, selected_people, msg)
        IN  /\ grid' = after
            /\ raceLast' = [raceLast EXCEPT ![s] =
                   [msg |-> msg, sel |-> selected_people,
                    already |-> {p \in selected_people :
                                    ~IsEmptyCell(grid[view.row][names[p]])},
                    lost |-> Claimed(grid) \ Claimed(after)]]
            /\ sess' = [sess EXCEPT ![s] = SessIdle]
    /\ UNCHANGED <<ledgerFile, colCache, namesCache, otLast>>

RaceIdle ==
    /\ sess = [s \in Sessions |-> SessIdle]
    /\ raceLast = [s \in Sessions |-> RaceStart]

BillIdle ==
    /\ osSep = "/"
    /\ files = {}
    /\ indexFile = "absent"
    /\ index = << >>
    /\ clock = 0
    /\ uploads = << >>
    /\ billMsg = "none"

-----------------------------------------------------------------------------
(* Strings: sanitize_filename, os.path.splitext, str(int), sorted *)

Letters == {"A", "B", "C", "D", "a", "b", "d", "f", "i", "l", "o", "p", "r", "s", "y"}
Digits == <<"0", "1", "2", "3", "4", "5", "6", "7", "8", "9">>

\* \w
IsWord(c) == c \in Letters \/ c = "_" \/ \E i \in 1..Len(Digits) : Digits[i] = c

\* [\w\-. ]
IsKept(c) == IsWord(c) \/ c \in {"-", ".", " "}

\* re.sub(r"[^\w\-. ]+", "_", s): every run of other characters becomes one "_".
RECURSIVE SubOther(_, _)
SubOther(s, inRun) ==
    IF s = << >> THEN << >>
    ELSE IF IsKept(Head(s)) THEN <<Head(s)>> \o SubOther(Tail(s), FALSE)
    ELSE IF inRun THEN SubOther(Tail(s), TRUE)
    ELSE <<"_">> \o SubOther(Tail(s), TRUE)

\* re.sub(r"\s+", "_", s): every run of white space becomes one "_".
RECURSIVE SubSpace(_, _)
SubSpace(s, inRun) ==
    IF s = << >> THEN << >>
    ELSE IF ~IsSpace(Head(s)) THEN <<Head(s)>> \o SubSpace(Tail(s), FALSE)
    ELSE IF inRun THEN SubSpace(Tail(s), TRUE)
    ELSE <<"_">> \o SubSpace(Tail(s), TRUE)

MaxNameLen == 150

\* sanitize_filename
SanitizeFilename(s) ==
    LET t == SubSpace(SubOther(Strip(s), FALSE), FALSE)
    IN  SubSeq(t, 1, Min(MaxNameLen, Len(t)))

\* str.rfind("."), 0 when there is none
RECURSIVE RFindDot(_, _)
RFindDot(s, i) == IF i = 0 \/ s[i] = "." THEN i ELSE RFindDot(s, i - 1)

\* os.path.splitext of a name without separators: split at the last dot,
\* unless only dots come before it.
SplitExt(name) ==
    LET dot == RFindDot(name, Len(name))
    IN  IF dot > 0 /\ \E i \in 1..(dot - 1) : name[i] # "."
        THEN [base |-> SubSeq(name, 1, dot - 1), ext |-> SubSeq(name, dot, Len(name))]
        ELSE [base |-> name, ext |-> << >>]

\* str(n) for n >= 0
RECURSIVE IntStr(_)
IntStr(n) == IF n < 10 THEN <<Digits[n + 1]>> ELSE IntStr(n \div 10) \o <<Digits[(n % 10) + 1]>>

\* str.lower() on the letters of the model
Lower(c) ==
    CASE c = "A" -> "a" [] c = "B" -> "b" [] c = "C" -> "c" [] c = "D" -> "d" [] OTHER -> c

Alphabet ==
    <<" ", "-", ".", "0", "1", "2", "3", "4", "5", "6", "7", "8", "9", "_",
      "a", "b", "c", "d", "f", "i", "l", "o", "p", "r", "s", "y">>

Rank(c) == CHOOSE i \in 1..Len(Alphabet) : Alphabet[i] = Lower(c)

\* a.lower() <= b.lower()
RECURSIVE LowerLeq(_, _)
LowerLeq(a, b) ==
    IF a = << >> THEN TRUE
    ELSE IF b = << >> THEN FALSE
    ELSE IF Rank(Head(a)) # Rank(Head(b)) THEN Rank(Head(a)) < Rank(Head(b))
    ELSE LowerLeq(Tail(a), Tail(b))

\* sorted(keys, key=lambda x: x.lower())
RECURSIVE SortedLower(_)
SortedLower(keys) ==
    IF keys = {} THEN << >>
    ELSE LET first == CHOOSE k \in keys : \A k2 \in keys : LowerLeq(k, k2)
         IN  <<first>> \o SortedLower(keys \ {first})

\* str.replace("\\", "/")
RECURSIVE ToSlashes(_)
ToSlashes(s) ==
    IF s = << >> THEN << >>
    ELSE <<IF Head(s) = "\\" THEN "/" ELSE Head(s)>> \o ToSlashes(Tail(s))

-----------------------------------------------------------------------------
(* The Bills Repo tab, lines 226-331 *)

BILLS_DIR == <<"B", "i", "l", "l", "s">>

Day == <<"D", "a", "y">>

\* date.isoformat() of the days of the model
IsoDate(d) == <<"2", "0", "2", "5", "-", "0", "1", "-", "0">> \o IntStr(d)

\* os.path.join
PathJoin(sep, a, b) == a \o <<sep>> \o b

Exists(fs, path) == \E f \in fs : f.path = path

\* get_all_names behind st.cache_data; line 234 drops "Day".
AllNames(mapping) ==
    LET all == SortedLower(DOMAIN mapping)
    IN  SelectSeq(all, LAMBDA n : n # Day)

\* Lines 311-317: the first free name among base.ext, base__1.ext, base__2.ext, ...
RECURSIVE FreeName(_, _, _, _, _, _)
FreeName(fs, sep, date_folder, base, ext, counter) ==
    LET stored_filename == base \o <<"_", "_">> \o IntStr(counter) \o ext
    IN  IF Exists(fs, PathJoin(sep, date_folder, stored_filename))
        THEN FreeName(fs, sep, date_folder, base, ext, counter + 1)
        ELSE stored_filename

\* Lines 301-317: the path the upload is written to.
StoredPath(fs, sep, upload_date, upload_name, file_name) ==
    LET date_folder == PathJoin(sep, BILLS_DIR, IsoDate(upload_date))
        stored_filename == SanitizeFilename(upload_name) \o <<"_", "_">> \o SanitizeFilename(file_name)
        split == SplitExt(stored_filename)
    IN  IF Exists(fs, PathJoin(sep, date_folder, stored_filename))
        THEN PathJoin(sep, date_folder, FreeName(fs, sep, date_folder, split.base, split.ext, 1))
        ELSE PathJoin(sep, date_folder, stored_filename)

\* Lines 81-86: the rows read_bills_index returns; none when pd.read_csv raises.
ReadBillsIndex(rows, readOk) == IF readOk THEN rows ELSE << >>

\* Lines 88-98: the rows append_bill_index writes to the file.
AppendBillIndex(rows, readOk, ot_date, user_name, file_name, stored_path, now) ==
    Append(ReadBillsIndex(rows, readOk),
           [ot_date |-> IsoDate(ot_date), user_name |-> user_name, file_name |-> file_name,
            stored_path |-> ToSlashes(stored_path), uploaded_at |-> now])

\* The names of the files the uploader is given.
FileNames ==
    { <<"r", ".", "p", "d", "f">>,
      <<"r", "_", "_", "1", ".", "p", "d", "f">>,
      <<"r", "_", " ", "1", ".", "p", "d", "f">> }

UploadDates == {1}

\* The select box is left at its first option (index=0).
UploadNameIndexes == {1}

\* Lines 233-237: the names the select boxes offer, or the run's end: the
\* header is read from the workbook unless it is cached, and nothing catches
\* what load_workbook or wb[sheet_name] raises.
NamesStage(file, cacheNames, cacheCols) ==
    IF cacheNames # {} \/ cacheCols # {} \/ file = "ok"
    THEN IF AllNames(CachedNameToCol(cacheCols)) = << >> THEN "err_nonames" ELSE "names"
    ELSE "exception"

\* Lines 319-331: what can happen in the try block: the write and the index
\* append succeed, open or write raises, or the write succeeds and to_csv
\* raises.
SaveOutcomes == {"ok", "write_fails", "index_fails"}

\* Lines 320-321: the file is at stored_path unless the write raised.
SaveWritten(outcome) == outcome # "write_fails"

\* Line 323 is reached once the write succeeded, and adds the record unless
\* to_csv raised.
SaveIndexedFirst(outcome) == outcome # "index_fails"

SaveIndexed(outcome) == outcome = "ok"

RenderBills ==
    LET stage == NamesStage(ledgerFile, namesCache, colCache)
        names == IF namesCache # {} THEN CHOOSE l \in namesCache : TRUE
                 ELSE AllNames(CachedNameToCol(colCache))
    IN  \* lines 229-230: ensure_bills_storage creates the index, header only
        /\ indexFile' = "ok"
        /\ IF stage # "names"
           THEN /\ billMsg' = stage
                /\ UNCHANGED <<files, index, clock, uploads, namesCache, colCache>>
           ELSE /\ namesCache' = {names}
                /\ colCache' = {CachedNameToCol(colCache)}
                /\ \/ \* no button pressed
                      /\ billMsg' = "shown"
                      /\ UNCHANGED <<files, index, clock, uploads>>
                   \/ \* Save Bill without a file
                      /\ billMsg' = "err_nofile"
                      /\ UNCHANGED <<files, index, clock, uploads>>
                   \/ \* Save Bill with a file
                      /\ Len(uploads) < MaxUploads
                      /\ \E upload_date \in UploadDates, i \in UploadNameIndexes,
                            file_name \in FileNames :
                          LET upload_name == names[i]
                              stored_path == StoredPath(files, osSep, upload_date,
                                                        upload_name, file_name)
                              existed == Exists(files, stored_path)
                              payload == Len(uploads) + 1
                          IN  \E outcome \in SaveOutcomes :
                              \E readOk \in (IF SaveIndexed(outcome) /\ index # << >>
                                             THEN BOOLEAN ELSE {TRUE}) :
                              \* datetime.now(): each Save Bill is pressed a second
                              \* after the one before
                              /\ clock' = clock + 1
                              /\ files' =
                                    IF SaveWritten(outcome)
                                    THEN {f \in files : f.path # stored_path}
                                         \cup {[path |-> stored_path, payload |-> payload]}
                                    ELSE files
                              /\ index' = IF SaveIndexed(outcome)
                                          THEN AppendBillIndex(index, readOk, upload_date,
                                                   upload_name, file_name, stored_path, clock')
                                          ELSE index
                              /\ billMsg' = IF outcome = "ok" THEN "saved" ELSE "err_save"
                              /\ uploads' = Append(uploads,
                                     [date |-> upload_date, user |-> upload_name,
                                      file |-> file_name, path |-> stored_path,
                                      existed |-> existed,
                                      payload |-> payload, outcome |-> outcome,
                                      readOk |-> readOk])
        /\ UNCHANGED <<ledgerFile, grid, otLast, osSep>>

BillInit ==
    /\ osSep \in {"/", "\\"}
    /\ files = {}
    /\ indexFile = "absent"
    /\ index = << >>
    /\ clock = 0
    /\ uploads = << >>
    /\ billMsg = "none"

-----------------------------------------------------------------------------
(* Specifications *)

\* The OT tab, one run of the script at a time.
InitOT == OtInit /\ ReqIdle /\ RaceIdle /\ BillIdle

NextOT ==
    \/ RenderOT /\ UNCHANGED <<reqVars, raceVars, billVars>>
    \/ EnvLedger /\ UNCHANGED <<reqVars, raceVars, billVars>>

SpecOT == InitOT /\ [][NextOT]_vars

\* Lines 106-113 for every bill amount.
InitReq ==
    /\ billAmount \in 0..MaxBill
    /\ required = 0
    /\ gatePc = "input"
    /\ OtInit /\ ledgerFile = "ok"
    /\ RaceIdle /\ BillIdle

NextReq == Gate /\ UNCHANGED <<otVars, raceVars, billVars>>

SpecReq == InitReq /\ [][NextReq]_vars

\* Two sessions on the same workbook.
InitRace ==
    /\ OtInit /\ ledgerFile = "ok"
    /\ ReqIdle /\ RaceIdle /\ BillIdle

NextRace ==
    \E s \in Sessions :
        \/ RaceLoad(s) /\ UNCHANGED <<reqVars, billVars>>
        \/ RaceFinish(s) /\ UNCHANGED <<reqVars, billVars>>

SpecRace == InitRace /\ [][NextRace]_vars

\* The Bills Repo tab, one run of the script at a time.
InitBills == OtInit /\ ReqIdle /\ RaceIdle /\ BillInit

NextBills == RenderBills /\ UNCHANGED <<reqVars, raceVars>>

SpecBills == InitBills /\ [][NextBills]_vars

-----------------------------------------------------------------------------
(* Properties of the OT tab (SpecOT, SpecReq) *)

\* The last run showed the form and Submit OT Claim was pressed.
Submitted == otLast.stage = "form" /\ otLast.submit

SizeMatches ==
    Cardinality(otLast.sel) = Min(otLast.required, Cardinality(otLast.avail))

MarkedOnDisk == \A p \in otLast.sel : grid[otLast.row][NameToCol[p]] = OT

\* C1 (as amended): on Submit OT Claim with required count R > 0 and a
\* non-empty set A of unclaimed names, a selection S passes validation if and
\* only if |S| = min(R, |A|); a selection that passes is marked and the save
\* is attempted, and the marks are in the file when the save succeeds (a
\* failed save reports an error and writes nothing); every selection of any
\* other size is rejected with a validation error and nothing is written.
C1_SelectionSizeRule ==
    (Submitted /\ otLast.required > 0 /\ otLast.avail # {}) =>
        /\ SizeMatches <=> otLast.msg \in {"saved", "err_save"}
        /\ ~SizeMatches => (otLast.msg = "err_select" /\ grid = otLast.pre)
        /\ otLast.msg = "saved" => MarkedOnDisk
        /\ otLast.msg = "err_save" => grid = otLast.pre

\* C1 as stated: the selection is accepted, that is marked and saved, if and
\* only if |S| = min(R, |A|).
C1_AsClaimed ==
    (Submitted /\ otLast.required > 0 /\ otLast.avail # {}) =>
        /\ SizeMatches <=> (otLast.msg = "saved" /\ MarkedOnDisk)
        /\ ~SizeMatches => (otLast.msg = "err_select" /\ grid = otLast.pre)

\* C1 witness: fewer names are unclaimed than required, all of them were
\* selected, and the submit was saved.
C1_Witness ==
    /\ Submitted
    /\ otLast.msg = "saved"
    /\ Cardinality(otLast.avail) < otLast.required
    /\ otLast.sel = otLast.avail
    /\ MarkedOnDisk

\* C2: past the gate of line 109 the bill amount b is positive and the
\* required count is the least n with n * 750 >= b; the run stops at the gate
\* exactly when b <= 0, with no required count computed, so nothing after
\* the gate runs with a required count of 0.
C2_RequiredCount ==
    /\ gatePc = "stopped" => (billAmount <= 0 /\ required = 0)
    /\ gatePc = "ledger" =>
        /\ billAmount > 0
        /\ required > 0
        /\ required * 750 >= billAmount
        /\ (required - 1) * 750 < billAmount
    /\ (gatePc = "ledger" /\ billAmount = 750) => required = 1
    /\ (gatePc = "ledger" /\ billAmount = 751) => required = 2
    /\ (gatePc = "ledger" /\ billAmount = 1500) => required = 2

\* C2 witness: 751 went through the gate and requires 2 people.
C2_Witness == gatePc = "ledger" /\ billAmount = 751 /\ required = 2

C9_NoSaveNoChange ==
    otLast.msg \in {"info_bill", "err_open", "err_sheet", "err_date",
                    "all_claimed", "err_select", "idle"}
        => grid = otLast.pre

\* C9 witness: a non-empty selection of the wrong size was rejected, after an
\* earlier submit had been saved.
C9_Witness ==
    /\ otLast.msg = "err_select"
    /\ otLast.sel # {}
    /\ grid = otLast.pre
    /\ Claimed(grid) # Claimed(InitGrid)

-----------------------------------------------------------------------------
(* Properties of two sessions on one workbook (SpecRace) *)

\* Session s ends a run with a successful save in this step.
Saves(s) ==
    /\ sess[s].pc = "loaded"
    /\ sess'[s].pc = "idle"
    /\ raceLast'[s].msg = "saved"

\* The cell holds a claim in the file and in every workbook a run in flight
\* has loaded.
Settled(rc) ==
    /\ rc \in Claimed(grid)
    /\ \A s \in Sessions : sess[s].pc = "loaded" => rc \in Claimed(sess[s].wb)

\* A saved submit leaves the marker of a selected name that was already marked
\* in the file as it was, sets the marker of the others, and a reread of the
\* saved file reports every selected name as claimed.
SubmitSetsMarker ==
    [][\A s \in Sessions : Saves(s) =>
          \A p \in raceLast'[s].sel :
              LET r == sess[s].view.row
                  c == NameToCol[p]
              IN  /\ ~IsEmptyCell(grid[r][c]) => grid'[r][c] = grid[r][c]
                  /\ grid'[r][c] = OT
                  /\ p \notin AvailablePeople(grid', r, NameToCol)]_vars

\* C5 (as amended): submitting a name already marked does not change its
\* marker; submitting an unmarked name sets the marker and rereading the saved
\* file yields it; the name is reported as claimed by every later load unless
\* a run that loaded the workbook before the claim was saved saves after it.
C5_MarkerKept ==
    /\ SubmitSetsMarker
    /\ [][\A rc \in Rows \X Cols : Settled(rc) => Settled(rc)']_vars

\* C5 as stated: once a name is marked in the saved file, every later load
\* reports it as claimed.
C5_AsClaimed ==
    /\ SubmitSetsMarker
    /\ [][\A rc \in Rows \X Cols : rc \in Claimed(grid) => rc \in Claimed(grid')]_vars

\* C5 witness: a saved submit held a name another session had marked in the
\* file in the meantime, and a name that was unmarked.
C5_Witness ==
    \E s \in Sessions :
        /\ raceLast[s].msg = "saved"
        /\ raceLast[s].already # {}
        /\ raceLast[s].sel \ raceLast[s].already # {}
        /\ \A p \in raceLast[s].sel : grid[2][NameToCol[p]] = OT

\* C7: the save of a run writes the workbook that run loaded: every cell the
\* run did not select takes the value it had when the run loaded, so a claim
\* another session saved in between is unclaimed again, and the run that
\* dropped it reports success.
C7_LastWriterWins ==
    /\ [][\A s \in Sessions : Saves(s) =>
            \A rc \in Rows \X Cols :
                (rc[1] = sess[s].view.row /\ \E p \in raceLast'[s].sel : NameToCol[p] = rc[2])
                \/ grid'[rc[1]][rc[2]] = sess[s].wb[rc[1]][rc[2]]]_vars
    /\ [](\A s \in Sessions : raceLast[s].lost # {} => raceLast[s].msg = "saved")

\* C7 witness: both sessions reported a saved submit, and the later save
\* removed a claim from the file.
C7_Witness ==
    /\ \A s \in Sessions : raceLast[s].msg = "saved"
    /\ \E s \in Sessions : raceLast[s].lost # {}
    /\ \E s \in Sessions : \E p \in raceLast[s].sel : IsEmptyCell(grid[2][NameToCol[p]])

-----------------------------------------------------------------------------
(* Properties of the Bills Repo tab (SpecBills) *)

Saved(i) == uploads[i].outcome = "ok"

\* The stored file name of a path.
FileNameOf(path) ==
    SubSeq(path, Len(PathJoin(osSep, PathJoin(osSep, BILLS_DIR, IsoDate(1)), << >>)) + 1, Len(path))

SameStoredName(i, j) ==
    /\ uploads[i].date = uploads[j].date
    /\ SanitizeFilename(uploads[i].user) = SanitizeFilename(uploads[j].user)
    /\ SanitizeFilename(uploads[i].file) = SanitizeFilename(uploads[j].file)

HasRecord(i) ==
    \E k \in DOMAIN index :
        /\ index[k].stored_path = ToSlashes(uploads[i].path)
        /\ index[k].user_name = uploads[i].user
        /\ index[k].file_name = uploads[i].file

\* No upload was written over an existing file, and of two saved uploads with
\* the same sanitized names in one date folder the first is stored under the
\* base name or a numbered one and the second under base__k.ext, at another path.
C3_PathsDistinct ==
    /\ \A i \in DOMAIN uploads : SaveWritten(uploads[i].outcome) => ~uploads[i].existed
    /\ \A i, j \in DOMAIN uploads :
        (i < j /\ Saved(i) /\ Saved(j) /\ SameStoredName(i, j)) =>
            LET split == SplitExt(SanitizeFilename(uploads[j].user) \o <<"_", "_">>
                                  \o SanitizeFilename(uploads[j].file))
            IN  /\ uploads[i].path # uploads[j].path
                /\ \E k \in 1..MaxUploads :
                      FileNameOf(uploads[j].path)
                          = split.base \o <<"_", "_">> \o IntStr(k) \o split.ext

\* C3: Upload Store never overwrites an existing file, and two uploads with
\* identical sanitized user name and file name in the same date folder yield
\* two distinct stored paths (base, then base__1, base__2, ...) and two index
\* records.
C3_NoOverwriteTwoRecords ==
    /\ C3_PathsDistinct
    /\ \A i, j \in DOMAIN uploads :
        (i < j /\ Saved(i) /\ Saved(j) /\ SameStoredName(i, j)) =>
            (HasRecord(i) /\ HasRecord(j))

\* C6: the upload index is append-only: a Save Bill leaves it as it was or
\* appends exactly one record to the records it held.
C6_AppendOnly ==
    [][\/ index' = index
       \/ /\ Len(index') = Len(index) + 1
          /\ SubSeq(index', 1, Len(index)) = index]_vars

\* C8: no run of the OT tab or of the Bills Repo tab ends with an exception
\* that nothing caught.
C8_NoException == billMsg # "exception" /\ otLast.msg # "exception"

\* C10: every record of the upload index has a stored_path at which the file
\* written by that upload is stored.
C10_RecordHasFile ==
    \A k \in DOMAIN index :
        \E i \in DOMAIN uploads :
            /\ index[k].stored_path = ToSlashes(uploads[i].path)
            /\ index[k].user_name = uploads[i].user
            /\ index[k].file_name = uploads[i].file
            /\ index[k].ot_date = IsoDate(uploads[i].date)
            /\ SaveWritten(uploads[i].outcome)
            /\ [path |-> uploads[i].path, payload |-> uploads[i].payload] \in files

\* C10 witness: the index holds a record, and a Save Bill whose index append
\* failed has left a file that no record of the index names.
C10_Witness ==
    /\ index # << >>
    /\ billMsg = "err_save"
    /\ \E f \in files : \A k \in DOMAIN index : index[k].stored_path # ToSlashes(f.path)
    /\ uploads[Len(uploads)].outcome = "index_fails"

====
